---- MODULE Spec2Model ----
(***************************************************************************)
(* Model of the video-summarization pipeline of vnotes-v2:                 *)
(* src/src/app/api/summarize/route.ts (POST = Check/Run, GET = Status).    *)
(* The artifact store is the file system under public/ and .vnotes/; one   *)
(* video id is followed.  Every `await` of the route is a step boundary:   *)
(* the synchronous code between two awaits is one atomic action.           *)
(***************************************************************************)
EXTENDS Integers, Sequences, FiniteSets, TLC

\* ------------------------------------------------------------------ bounds
NumReqs == 2            \* request slots (concurrent handlers)
MaxRuns == 2            \* Check/Run requests issued in one behaviour
MaxMisses == 1          \* silent per-frame misses the tool produces in one pass
Scale == 2              \* durations are counted in 1/Scale seconds
MaxDur == 130           \* largest probed duration (seconds) of the schedule check

\* --------------------------------------------------------- program constants
MAX_FRAMES == 20
VISION_FRAMES == 10
SECONDS_PER_FRAME == 10
PAD_WIDTH == 3

Procs == 1..NumReqs
Ordinals == 0..(MAX_FRAMES - 1)

Min(a, b) == IF a <= b THEN a ELSE b

\* Math.ceil(a / b) for naturals a, b > 0
CeilDiv(a, b) == (a + b - 1) \div b

\* ------------------------------------------------------------ the schedule
\* d is the probed duration in 1/Scale seconds.
\* frameCount = Math.min(MAX_FRAMES, Math.ceil(duration / 10))
FrameCount(d) == Min(MAX_FRAMES, CeilDiv(d, SECONDS_PER_FRAME * Scale))

\* Timestamps are exact rationals with denominator TsDen(d) = 2*frameCount*Scale:
\* interval*i + interval/2 = (2i+1)*d / (2*frameCount*Scale).
TsDen(d) == 2 * FrameCount(d) * Scale

\* duration - 1, over the same denominator
ClampNum(d) == (d - Scale) * 2 * FrameCount(d)

\* variant: the half-interval offset is left out
TimestampNum_NoOffset(d, i) == Min(2 * i * d, ClampNum(d))

\* variant: the clamp is two seconds before the end
TimestampNum_ClampTwo(d, i) == Min((2 * i + 1) * d, (d - 2 * Scale) * 2 * FrameCount(d))

\* variant: the clamp is two intervals before the end instead of one second
TimestampNum_WideClamp(d, i) == Min((2 * i + 1) * d, 2 * d * (FrameCount(d) - 2))

\* Math.min(interval * i + interval / 2, duration - 1), numerator over TsDen(d)
TimestampNum(d, i) == Min((2 * i + 1) * d, ClampNum(d))

\* the whole schedule of the loop `for (i = 0; i < frameCount; i++)`
Schedule(d) == [k \in 1..FrameCount(d) |-> TimestampNum(d, k - 1)]

\* --------------------------------------------------------------- file names
\* String(i).padStart(3, "0"): the decimal digits of i, left-padded with 0
RECURSIVE Digits(_)
Digits(i) == IF i < 10 THEN <<i>> ELSE Append(Digits(i \div 10), i % 10)

RECURSIVE PadStart(_, _)
PadStart(s, w) == IF Len(s) >= w THEN s ELSE PadStart(<<0>> \o s, w)

\* variant: the ordinal is not padded
FrameName_Unpadded(i) == Digits(i)

FrameName(i) == PadStart(Digits(i), PAD_WIDTH)

\* code-unit order of two digit strings, as Array.prototype.sort() compares
RECURSIVE LexLess(_, _)
LexLess(s, t) ==
    IF s = <<>> THEN t # <<>>
    ELSE IF t = <<>> THEN FALSE
    ELSE IF Head(s) # Head(t) THEN Head(s) < Head(t)
    ELSE LexLess(Tail(s), Tail(t))

\* files.sort(): the ordinals of S ordered by their file names
RECURSIVE SortByName(_)
SortByName(S) ==
    IF S = {} THEN <<>>
    ELSE LET m == CHOOSE x \in S : \A y \in S \ {x} : LexLess(FrameName(x), FrameName(y))
         IN <<m>> \o SortByName(S \ {m})

VARIABLES
    video,      \* public/videos/<id>.mp4 exists
    duration,   \* what ffprobe reports for the video, in 1/Scale seconds
    config,     \* .vnotes/keys.json: "nofile", "garbage", "nokey", "empty", "key"
    dirs,       \* which of public/audio, public/frames, public/transcripts exist
    audio,      \* public/audio/<id>.mp3: [st: "none"|"partial"|"complete", by]
    transcript, \* public/transcripts/<id>.txt: [st: "none"|"written", from, by]
    framesDir,  \* public/frames/<id> exists
    txt,        \* frame_NNN.txt items: ordinal -> writer (0 = absent)
    jpg,        \* frame_NNN.jpg raw images currently in public/frames/<id>
    req,        \* per request slot: the handler's locals and position
    prev,       \* the last request that returned (history)
    runs,       \* number of Check/Run requests issued so far
    status,     \* the Status (GET) or keys-endpoint response produced by the
                \* last step, if any
    sd, si, sts \* schedule check: duration, loop index, timestamps pushed

storeVars == <<video, duration, config, dirs, audio, transcript, framesDir, txt, jpg>>
schedVars == <<sd, si, sts>>
vars == <<video, duration, config, dirs, audio, transcript, framesDir, txt, jpg,
          req, prev, runs, status, sd, si, sts>>

AllDirs == {"audio", "frames", "transcripts"}
ConfigStates == {"nofile", "garbage", "nokey", "empty", "key"}

NoAudio == [st |-> "none", by |-> 0]
NoTranscript == [st |-> "none", from |-> "none", by |-> 0]
NoTxt == [i \in Ordinals |-> 0]

\* ordinals that have a .txt item
TxtSet(t) == {i \in Ordinals : t[i] # 0}

NoFlags == [hasAudio |-> FALSE, hasFrames |-> FALSE, hasTranscript |-> FALSE]

\* the store as a request finds it when it arrives (history)
NoSnapshot == [video |-> FALSE, config |-> "nofile", audio |-> "none",
               transcript |-> "none", txt |-> {}]

\* the `cached` object of the success response
NoCacheFlags == [audio |-> FALSE, frames |-> FALSE, transcript |-> FALSE]

NoResp == [status |-> 0, error |-> "", frameCount |-> 0, cached |-> NoCacheFlags,
           summary |-> <<>>, visualSummary |-> <<>>, audioSummary |-> <<>>]

\* a request slot: the locals of POST (cached, transcript, frames, the loop
\* index idx and frameCount fc, the three summaries), its position pc, and
\* history: input, pre, the calls made, the ordinals the tool missed, whether
\* its ffmpeg opened the mp3, where it failed, its response; stagesDone is
\* used in prev only: the stages completed by the requests returned so far
Idle == [pc |-> "idle", input |-> "none", cached |-> NoFlags, pre |-> NoSnapshot,
         sent |-> "none", transcript |-> NoTranscript, frames |-> <<>>,
         idx |-> 0, fc |-> 0, missed |-> {}, partial |-> FALSE, calls |-> <<>>,
         visual |-> <<>>, audioSum |-> <<>>, final |-> <<>>,
         failedAt |-> "none", resp |-> NoResp, stagesDone |-> {}, reads |-> <<>>]

Call(op, arg) == [op |-> op, arg |-> arg]

\* ------------------------------------------------------------ pure helpers
\* variant: `config.openaiApiKey ?? null`, which lets an empty key through
getOpenAIApiKey_Nullish(c) == IF c \in {"key", "empty"} THEN "key" ELSE "null"

\* getOpenAIApiKey(): null unless the file parses and holds a non-empty key
getOpenAIApiKey(c) == IF c = "key" THEN "key" ELSE "null"

\* variant: the frame-set check looks for the raw .jpg images, which the
\* sampler removes after encoding
checkCachedData_Jpg(a, t, fd, x) ==
    [hasAudio |-> a.st # "none",
     hasFrames |-> FALSE,
     hasTranscript |-> t.st # "none"]

\* variant: the frame-set counts as cached as soon as its directory exists
checkCachedData_DirOnly(a, t, fd, x) ==
    [hasAudio |-> a.st # "none",
     hasFrames |-> fd,
     hasTranscript |-> t.st # "none"]

\* checkCachedData(videoId), over the store as it is when called
checkCachedData(a, t, fd, x) ==
    [hasAudio |-> a.st # "none",
     hasFrames |-> fd /\ TxtSet(x) # {},
     hasTranscript |-> t.st # "none"]

\* variant: the items are loaded in descending name order
loadCachedFrames_Descending(x) ==
    LET names == SortByName(TxtSet(x))
        n == Len(names)
    IN [k \in 1..n |-> <<names[n + 1 - k], x[names[n + 1 - k]]>>]

\* variant: only the first stored item is loaded
loadCachedFrames_First(x) ==
    LET names == SortByName(TxtSet(x))
    IN [k \in 1..Min(1, Len(names)) |-> <<names[k], x[names[k]]>>]

\* loadCachedFrames(framesDir): the .txt items in file-name order
loadCachedFrames(x) ==
    LET names == SortByName(TxtSet(x))
    IN [k \in 1..Len(names) |-> <<names[k], x[names[k]]>>]

\* variant: every frame is sent
framesToUse_All(frames) == frames

\* frames.slice(0, 10)
framesToUse(frames) == SubSeq(frames, 1, Min(VISION_FRAMES, Len(frames)))

ErrorResp(code, msg) == [NoResp EXCEPT !.status = code, !.error = msg]

\* variant: the source-video guard is missing
Precheck_NoVideoGuard(inp, v, c) ==
    IF inp = "malformed" THEN "throw"
    ELSE IF inp = "empty" THEN "noId"
    ELSE IF getOpenAIApiKey(c) = "null" THEN "noKey"
    ELSE "pass"

\* variant: the credential is looked up before the video file
Precheck_KeyFirst(inp, v, c) ==
    IF inp = "malformed" THEN "throw"
    ELSE IF inp = "empty" THEN "noId"
    ELSE IF getOpenAIApiKey(c) = "null" THEN "noKey"
    ELSE IF ~v THEN "notFound"
    ELSE "pass"

\* the guards of POST before any stage work, in source order
Precheck(inp, v, c) ==
    IF inp = "malformed" THEN "throw"
    ELSE IF inp = "empty" THEN "noId"
    ELSE IF ~v THEN "notFound"
    ELSE IF getOpenAIApiKey(c) = "null" THEN "noKey"
    ELSE "pass"

\* what the guards of POST look at before the first return: the parsed
\* videoId, the video file (existsSync), the config file (getOpenAIApiKey)
PrecheckReads(inp, v, c) ==
    IF inp = "malformed" THEN <<>>
    ELSE IF inp = "empty" THEN <<"videoId">>
    ELSE IF ~v THEN <<"videoId", "video">>
    ELSE <<"videoId", "video", "config">>

\* variant: the catch block logs the error and sends no response
Thrown_Hang(l, at) ==
    [l EXCEPT !.pc = "hung", !.failedAt = at]

\* the catch block of POST: any thrown error becomes a 500 response
Thrown(l, at) ==
    [l EXCEPT !.pc = "fail", !.failedAt = at, !.resp = ErrorResp(500, at)]

\* an early return of POST with a 4xx response
\* variant: every early rejection carries the same message
Rejected_Generic(l, code, msg) ==
    [l EXCEPT !.pc = "fail", !.failedAt = msg, !.resp = ErrorResp(code, "Bad request")]

Rejected(l, code, msg) ==
    [l EXCEPT !.pc = "fail", !.failedAt = msg, !.resp = ErrorResp(code, msg)]

\* generateSummary, step 1: the Vision Summarizer call is issued
\* the success response of POST
DoneResp(l, fin) ==
    [status |-> 200, error |-> "", frameCount |-> Len(l.frames),
     cached |-> [audio |-> l.cached.hasAudio, frames |-> l.cached.hasFrames,
                 transcript |-> l.cached.hasTranscript],
     summary |-> fin, visualSummary |-> l.visual, audioSummary |-> l.audioSum]

\* variant: a request that finds every artifact cached is answered with the
\* summary the previous request produced
StageSummary_Cached(l) ==
    IF l.cached.hasAudio /\ l.cached.hasTranscript /\ l.cached.hasFrames /\ prev.pc = "done"
    THEN [l EXCEPT !.pc = "done", !.final = prev.final, !.resp = DoneResp(l, prev.final)]
    ELSE [l EXCEPT !.pc = "visual",
                   !.calls = Append(@, Call("generateVisualSummary", framesToUse(l.frames)))]

StageSummary(l) ==
    [l EXCEPT !.pc = "visual",
              !.calls = Append(@, Call("generateVisualSummary", framesToUse(l.frames)))]

\* the frame loop of extractFrames: issue the tool call for ordinal i, or
\* leave the loop when i reaches frameCount
FrameLoop(l, i) ==
    IF i < l.fc
    THEN [l EXCEPT !.pc = "frame", !.idx = i,
                   !.calls = Append(@, Call("ffmpegFrame", <<i>>))]
    ELSE StageSummary([l EXCEPT !.idx = i])

\* variant: the frames are sampled whether or not a frame-set is cached
StageFrames_Always(l, x) ==
    [l EXCEPT !.pc = "probe", !.calls = Append(@, Call("ffprobe", <<>>))]

\* POST, "Extract or load frames"
\* variant: a cached frame set of fewer than two items is taken as incomplete
\* and sampled again
StageFrames_Resample(l, x) ==
    IF l.cached.hasFrames /\ Cardinality(TxtSet(x)) >= 2
    THEN StageSummary([l EXCEPT !.frames = loadCachedFrames(x)])
    ELSE [l EXCEPT !.pc = "probe", !.calls = Append(@, Call("ffprobe", <<>>))]

StageFrames(l, x) ==
    IF l.cached.hasFrames
    THEN StageSummary([l EXCEPT !.frames = loadCachedFrames(x)])
    ELSE [l EXCEPT !.pc = "probe", !.calls = Append(@, Call("ffprobe", <<>>))]

\* variant: the transcript is requested whether or not it is cached
StageTranscript_Always(l, a, t, x) ==
    [l EXCEPT !.pc = "transcribe", !.sent = a.st,
              !.calls = Append(@, Call("transcribeAudio", <<>>))]

\* variant: a transcript is taken from the cache only together with the audio
\* it was made from
StageTranscript_Dependent(l, a, t, x) ==
    IF l.cached.hasTranscript /\ l.cached.hasAudio
    THEN StageFrames([l EXCEPT !.transcript = t], x)
    ELSE [l EXCEPT !.pc = "transcribe", !.sent = a.st,
                   !.calls = Append(@, Call("transcribeAudio", <<>>))]

\* POST, "Transcribe or load cached transcript"; a is the audio file as the
\* read stream of transcribeAudio finds it
StageTranscript(l, a, t, x) ==
    IF l.cached.hasTranscript
    THEN StageFrames([l EXCEPT !.transcript = t], x)
    ELSE [l EXCEPT !.pc = "transcribe", !.sent = a.st,
                   !.calls = Append(@, Call("transcribeAudio", <<>>))]

\* variant: the audio is extracted whether or not it is cached
StageAudio_Always(l, a, t, x) ==
    [l EXCEPT !.pc = "audio", !.calls = Append(@, Call("extractAudio", <<>>))]

\* variant: the transcript stage is entered without the audio stage
StageAudio_Skip(l, a, t, x) ==
    StageTranscript(l, a, t, x)

\* POST, "Extract or load audio"
StageAudio(l, a, t, x) ==
    IF l.cached.hasAudio
    THEN StageTranscript(l, a, t, x)
    ELSE [l EXCEPT !.pc = "audio", !.calls = Append(@, Call("extractAudio", <<>>))]

\* extractFrames creates public/frames/<id> when the sampler is entered
MkFramesDir(l, fd) == fd \/ l.pc = "probe"

\* no Status response was produced by the last step
NoStatus == [videoId |-> "", videoExists |-> FALSE, hasAudio |-> FALSE, hasFrames |-> FALSE,
             hasTranscript |-> FALSE, audioPath |-> "null",
             framesDir |-> "null", transcriptPath |-> "null", code |-> 0]

\* ------------------------------------------------------------------- Init
InitTxts == {NoTxt,
             [i \in Ordinals |-> IF i = 0 THEN NumReqs + 1 ELSE 0],
             [i \in Ordinals |-> IF i <= VISION_FRAMES THEN NumReqs + 1 ELSE 0]}

PipelineDurations == {0, 5 * Scale, 105 * Scale}

Init ==
    /\ video \in BOOLEAN
    /\ duration \in IF video THEN PipelineDurations ELSE {0}
    /\ config \in ConfigStates
    /\ audio \in {NoAudio, [st |-> "complete", by |-> NumReqs + 1]}
    /\ transcript \in {NoTranscript,
                       [st |-> "written", from |-> "complete", by |-> NumReqs + 1]}
    /\ txt \in InitTxts
    /\ framesDir = (TxtSet(txt) # {})
    /\ dirs = IF audio.st = "none" /\ transcript.st = "none" /\ ~framesDir
              THEN {} ELSE AllDirs
    /\ jpg = {}
    /\ req = [r \in Procs |-> Idle]
    /\ prev = Idle
    /\ runs = 0
    /\ status = NoStatus
    /\ sd = 0 /\ si = 0 /\ sts = <<>>

\* variant: ensureDirectories() is called at the top of the handler
POST_EnsureFirst(r, inp) ==
    /\ req[r].pc = "idle"
    /\ runs < MaxRuns
    /\ runs' = runs + 1
    /\ LET l0 == [Idle EXCEPT !.input = inp,
                              !.reads = PrecheckReads(inp, video, config),
                              !.pre = [video |-> video, config |-> config,
                                       audio |-> audio.st, transcript |-> transcript.st,
                                       txt |-> TxtSet(txt)]]
           check == Precheck(inp, video, config)
           l1 == CASE check = "throw" -> Thrown(l0, "request.json")
                   [] check = "noId" -> Rejected(l0, 400, "videoId is required")
                   [] check = "notFound" -> Rejected(l0, 404, "Video not found")
                   [] check = "noKey" -> Rejected(l0, 400, "OpenAI API key not configured")
                   [] check = "pass" ->
                        StageAudio([l0 EXCEPT !.cached =
                                       checkCachedData(audio, transcript, framesDir, txt)],
                                   audio, transcript, txt)
       IN /\ req' = [req EXCEPT ![r] = l1]
          /\ dirs' = AllDirs
          /\ framesDir' = MkFramesDir(l1, framesDir)
    /\ UNCHANGED <<video, duration, config, audio, transcript, txt, jpg, prev>>
    /\ status' = NoStatus
    /\ UNCHANGED schedVars

\* ---------------------------------------------------------------- actions
\* POST /api/summarize up to its first await on a tool or service
POST(r, inp) ==
    /\ req[r].pc = "idle"
    /\ runs < MaxRuns
    /\ runs' = runs + 1
    /\ LET l0 == [Idle EXCEPT !.input = inp,
                              !.reads = PrecheckReads(inp, video, config),
                              !.pre = [video |-> video, config |-> config,
                                       audio |-> audio.st, transcript |-> transcript.st,
                                       txt |-> TxtSet(txt)]]
           check == Precheck(inp, video, config)
           l1 == CASE check = "throw" -> Thrown(l0, "request.json")
                   [] check = "noId" -> Rejected(l0, 400, "videoId is required")
                   [] check = "notFound" -> Rejected(l0, 404, "Video not found")
                   [] check = "noKey" -> Rejected(l0, 400, "OpenAI API key not configured")
                   [] check = "pass" ->
                        StageAudio([l0 EXCEPT !.cached =
                                       checkCachedData(audio, transcript, framesDir, txt)],
                                   audio, transcript, txt)
       IN /\ req' = [req EXCEPT ![r] = l1]
          /\ dirs' = IF check = "pass" THEN AllDirs ELSE dirs
          /\ framesDir' = MkFramesDir(l1, framesDir)
    /\ UNCHANGED <<video, duration, config, audio, transcript, txt, jpg, prev>>
    /\ status' = NoStatus
    /\ UNCHANGED schedVars

\* ffmpeg has opened its output: the mp3 exists but is not complete yet
AudioWriting(r) ==
    /\ req[r].pc = "audio"
    /\ audio # [st |-> "partial", by |-> r]
    /\ audio' = [st |-> "partial", by |-> r]
    /\ req' = [req EXCEPT ![r].partial = TRUE]
    /\ UNCHANGED <<video, duration, config, dirs, transcript, framesDir, txt, jpg,
                   prev, runs>>
    /\ status' = NoStatus
    /\ UNCHANGED schedVars

\* the mp3 as a request finds it when its own ffmpeg has exited 0: complete,
\* unless the ffmpeg of another request has reopened the same path (-y) and
\* is still writing, in which case either file may be what is on disk
AudioAfter(r) ==
    {[st |-> "complete", by |-> r]} \cup
    {[st |-> "partial", by |-> q] :
        q \in {p \in Procs \ {r} : req[p].pc = "audio" /\ req[p].partial}}

\* variant: a failed extraction is noted and the pipeline goes on
ExtractAudioDone_Swallow(r, out) ==
    /\ req[r].pc = "audio"
    /\ audio' = IF out = "ok" THEN [st |-> "complete", by |-> r] ELSE audio
    /\ req' = [req EXCEPT ![r] =
                  StageTranscript([@ EXCEPT !.failedAt =
                                       IF out = "ok" THEN "none" ELSE "extractAudio"],
                                  audio', transcript, txt)]
    /\ framesDir' = MkFramesDir(req'[r], framesDir)
    /\ UNCHANGED <<video, duration, config, dirs, transcript, txt, jpg, prev, runs>>
    /\ status' = NoStatus
    /\ UNCHANGED schedVars

\* extractAudio returns (exit 0) or throws (non-zero exit)
ExtractAudioDone(r, out) ==
    /\ req[r].pc = "audio"
    /\ IF out = "ok"
       THEN /\ audio' \in AudioAfter(r)
            /\ req' = [req EXCEPT ![r] = StageTranscript(@, audio', transcript, txt)]
            /\ framesDir' = MkFramesDir(req'[r], framesDir)
       ELSE /\ req' = [req EXCEPT ![r] = Thrown(@, "extractAudio")]
            /\ UNCHANGED <<audio, framesDir>>
    /\ UNCHANGED <<video, duration, config, dirs, transcript, txt, jpg, prev, runs>>
    /\ status' = NoStatus
    /\ UNCHANGED schedVars

\* variant: a failed transcription cleans up the audio it was given
TranscribeDone_Cleanup(r, out) ==
    /\ req[r].pc = "transcribe"
    /\ IF out = "ok"
       THEN /\ req[r].sent # "none"
            /\ transcript' = [st |-> "written", from |-> req[r].sent, by |-> r]
            /\ req' = [req EXCEPT ![r] =
                          StageFrames([@ EXCEPT !.transcript = transcript'], txt)]
            /\ framesDir' = MkFramesDir(req'[r], framesDir)
            /\ audio' = audio
       ELSE /\ req' = [req EXCEPT ![r] = Thrown(@, "transcribeAudio")]
            /\ audio' = NoAudio
            /\ UNCHANGED <<transcript, framesDir>>
    /\ UNCHANGED <<video, duration, config, dirs, txt, jpg, prev, runs>>
    /\ status' = NoStatus
    /\ UNCHANGED schedVars

\* variant: the transcript file is created before the service is awaited and
\* stays, empty, when the call fails
TranscribeDone_Placeholder(r, out) ==
    /\ req[r].pc = "transcribe"
    /\ IF out = "ok"
       THEN /\ req[r].sent # "none"
            /\ transcript' = [st |-> "written", from |-> req[r].sent, by |-> r]
            /\ req' = [req EXCEPT ![r] =
                          StageFrames([@ EXCEPT !.transcript = transcript'], txt)]
            /\ framesDir' = MkFramesDir(req'[r], framesDir)
       ELSE /\ req' = [req EXCEPT ![r] = Thrown(@, "transcribeAudio")]
            /\ transcript' = [st |-> "written", from |-> "none", by |-> r]
            /\ UNCHANGED framesDir
    /\ UNCHANGED <<video, duration, config, dirs, audio, txt, jpg, prev, runs>>
    /\ status' = NoStatus
    /\ UNCHANGED schedVars

\* variant: the service answers only for a complete audio file
TranscribeDone_RejectPartial(r, out) ==
    /\ req[r].pc = "transcribe"
    /\ IF out = "ok" /\ req[r].sent = "complete"
       THEN /\ transcript' = [st |-> "written", from |-> req[r].sent, by |-> r]
            /\ req' = [req EXCEPT ![r] =
                          StageFrames([@ EXCEPT !.transcript = transcript'], txt)]
            /\ framesDir' = MkFramesDir(req'[r], framesDir)
       ELSE /\ req' = [req EXCEPT ![r] = Thrown(@, "transcribeAudio")]
            /\ UNCHANGED <<transcript, framesDir>>
    /\ UNCHANGED <<video, duration, config, dirs, audio, txt, jpg, prev, runs>>
    /\ status' = NoStatus
    /\ UNCHANGED schedVars

\* variant: the transcript is stored only when the audio sent was complete
TranscribeDone_OnlyComplete(r, out) ==
    /\ req[r].pc = "transcribe"
    /\ IF out = "ok"
       THEN /\ req[r].sent # "none"
            /\ transcript' = IF req[r].sent = "complete"
                             THEN [st |-> "written", from |-> req[r].sent, by |-> r]
                             ELSE transcript
            /\ req' = [req EXCEPT ![r] =
                          StageFrames([@ EXCEPT !.transcript =
                                         [st |-> "written", from |-> req[r].sent, by |-> r]],
                                      txt)]
            /\ framesDir' = MkFramesDir(req'[r], framesDir)
       ELSE /\ req' = [req EXCEPT ![r] = Thrown(@, "transcribeAudio")]
            /\ UNCHANGED <<transcript, framesDir>>
    /\ UNCHANGED <<video, duration, config, dirs, audio, txt, jpg, prev, runs>>
    /\ status' = NoStatus
    /\ UNCHANGED schedVars

\* variant: the transcript is written with the exclusive-create flag, so an
\* existing transcript is kept
TranscribeDone_KeepFirst(r, out) ==
    /\ req[r].pc = "transcribe"
    /\ IF out = "ok"
       THEN /\ req[r].sent # "none"
            /\ transcript' = IF transcript.st = "none"
                             THEN [st |-> "written", from |-> req[r].sent, by |-> r]
                             ELSE transcript
            /\ req' = [req EXCEPT ![r] =
                          StageFrames([@ EXCEPT !.transcript =
                                         [st |-> "written", from |-> req[r].sent, by |-> r]],
                                      txt)]
            /\ framesDir' = MkFramesDir(req'[r], framesDir)
       ELSE /\ req' = [req EXCEPT ![r] = Thrown(@, "transcribeAudio")]
            /\ UNCHANGED <<transcript, framesDir>>
    /\ UNCHANGED <<video, duration, config, dirs, audio, txt, jpg, prev, runs>>
    /\ status' = NoStatus
    /\ UNCHANGED schedVars

\* the transcription service answers or fails; the transcript is written
\* right after a successful answer
TranscribeDone(r, out) ==
    /\ req[r].pc = "transcribe"
    /\ IF out = "ok"
       THEN /\ req[r].sent # "none"
            /\ transcript' = [st |-> "written", from |-> req[r].sent, by |-> r]
            /\ req' = [req EXCEPT ![r] =
                          StageFrames([@ EXCEPT !.transcript = transcript'], txt)]
            /\ framesDir' = MkFramesDir(req'[r], framesDir)
       ELSE /\ req' = [req EXCEPT ![r] = Thrown(@, "transcribeAudio")]
            /\ UNCHANGED <<transcript, framesDir>>
    /\ UNCHANGED <<video, duration, config, dirs, audio, txt, jpg, prev, runs>>
    /\ status' = NoStatus
    /\ UNCHANGED schedVars

\* ffprobe returns the duration, or throws
ProbeDone(r, out) ==
    /\ req[r].pc = "probe"
    /\ IF out = "ok"
       THEN req' = [req EXCEPT ![r] = FrameLoop([@ EXCEPT !.fc = FrameCount(duration)], 0)]
       ELSE req' = [req EXCEPT ![r] = Thrown(@, "ffprobe")]
    /\ UNCHANGED <<video, duration, config, dirs, audio, transcript, framesDir, txt,
                   jpg, prev, runs>>
    /\ status' = NoStatus
    /\ UNCHANGED schedVars

\* variant: a failed ffmpeg run removes the frame items of the pass so far
FrameToolDone_Cleanup(r, out) ==
    /\ req[r].pc = "frame"
    /\ \/ /\ out = "ok"
          /\ jpg' = jpg \cup {req[r].idx}
          /\ req' = [req EXCEPT ![r].pc = "encode"]
          /\ txt' = txt
       \/ /\ out = "miss"
          /\ Cardinality(req[r].missed) < MaxMisses
          /\ jpg' = jpg
          /\ req' = [req EXCEPT ![r].pc = "encode", ![r].missed = @ \cup {req[r].idx}]
          /\ txt' = txt
       \/ /\ out = "fail"
          /\ jpg' = jpg
          /\ req' = [req EXCEPT ![r] = Thrown(@, "ffmpegFrame")]
          /\ txt' = NoTxt
    /\ UNCHANGED <<video, duration, config, dirs, audio, transcript, framesDir,
                   prev, runs>>
    /\ status' = NoStatus
    /\ UNCHANGED schedVars

\* the per-timestamp ffmpeg run ends: it wrote the jpg ("ok"), exited 0
\* without a file ("miss"), or exited non-zero ("fail")
FrameToolDone(r, out) ==
    /\ req[r].pc = "frame"
    /\ \/ /\ out = "ok"
          /\ jpg' = jpg \cup {req[r].idx}
          /\ req' = [req EXCEPT ![r].pc = "encode"]
       \/ /\ out = "miss"
          /\ Cardinality(req[r].missed) < MaxMisses
          /\ jpg' = jpg
          /\ req' = [req EXCEPT ![r].pc = "encode", ![r].missed = @ \cup {req[r].idx}]
       \/ /\ out = "fail"
          /\ jpg' = jpg
          /\ req' = [req EXCEPT ![r] = Thrown(@, "ffmpegFrame")]
    /\ UNCHANGED <<video, duration, config, dirs, audio, transcript, framesDir, txt,
                   prev, runs>>
    /\ status' = NoStatus
    /\ UNCHANGED schedVars

\* variant: the frame is encoded and returned but not stored
FrameEncode_NoStore(r) ==
    /\ req[r].pc = "encode"
    /\ LET l == req[r]
           i == l.idx
           found == i \in jpg
           l1 == IF found THEN [l EXCEPT !.frames = Append(@, <<i, r>>)] ELSE l
       IN /\ txt' = txt
          /\ jpg' = jpg \ {i}
          /\ req' = [req EXCEPT ![r] = FrameLoop(l1, i + 1)]
    /\ UNCHANGED <<video, duration, config, dirs, audio, transcript, framesDir,
                   prev, runs>>
    /\ status' = NoStatus
    /\ UNCHANGED schedVars

\* variant: the frame is encoded and pushed without the existsSync guard
FrameEncode_NoGuard(r) ==
    /\ req[r].pc = "encode"
    /\ LET l == req[r]
           i == l.idx
           l1 == [l EXCEPT !.frames = Append(@, <<i, r>>)]
       IN /\ txt' = [txt EXCEPT ![i] = r]
          /\ jpg' = jpg \ {i}
          /\ req' = [req EXCEPT ![r] = FrameLoop(l1, i + 1)]
    /\ UNCHANGED <<video, duration, config, dirs, audio, transcript, framesDir,
                   prev, runs>>
    /\ status' = NoStatus
    /\ UNCHANGED schedVars

\* the loop body after the await: encode and store the frame if the jpg is
\* there, remove the jpg, go on with the next ordinal
FrameEncode(r) ==
    /\ req[r].pc = "encode"
    /\ LET l == req[r]
           i == l.idx
           found == i \in jpg
           l1 == IF found THEN [l EXCEPT !.frames = Append(@, <<i, r>>)] ELSE l
       IN /\ txt' = IF found THEN [txt EXCEPT ![i] = r] ELSE txt
          /\ jpg' = jpg \ {i}
          /\ req' = [req EXCEPT ![r] = FrameLoop(l1, i + 1)]
    /\ UNCHANGED <<video, duration, config, dirs, audio, transcript, framesDir,
                   prev, runs>>
    /\ status' = NoStatus
    /\ UNCHANGED schedVars

\* variant: a failed Vision Summarizer call is issued once more before giving up
VisualDone_Retry(r, out) ==
    /\ req[r].pc = "visual"
    /\ LET tries == Cardinality({k \in 1..Len(req[r].calls) :
                                   req[r].calls[k].op = "generateVisualSummary"})
       IN IF out = "ok"
          THEN req' = [req EXCEPT ![r] =
                          [@ EXCEPT !.pc = "audioSum",
                                    !.visual = <<"visual", r, Len(framesToUse(req[r].frames))>>,
                                    !.calls = Append(@, Call("generateAudioSummary", <<>>))]]
          ELSE IF tries < 2
               THEN req' = [req EXCEPT ![r] = StageSummary(@)]
               ELSE req' = [req EXCEPT ![r] = Thrown(@, "generateVisualSummary")]
    /\ UNCHANGED storeVars
    /\ UNCHANGED <<prev, runs>>
    /\ status' = NoStatus
    /\ UNCHANGED schedVars

\* generateVisualSummary returns or throws; on return the Audio Summarizer is called
VisualDone(r, out) ==
    /\ req[r].pc = "visual"
    /\ IF out = "ok"
       THEN req' = [req EXCEPT ![r] =
                       [@ EXCEPT !.pc = "audioSum",
                                 !.visual = <<"visual", r, Len(framesToUse(req[r].frames))>>,
                                 !.calls = Append(@, Call("generateAudioSummary", <<>>))]]
       ELSE req' = [req EXCEPT ![r] = Thrown(@, "generateVisualSummary")]
    /\ UNCHANGED storeVars
    /\ UNCHANGED <<prev, runs>>
    /\ status' = NoStatus
    /\ UNCHANGED schedVars

\* variant: a failed audio summarizer is passed over and the consolidator is
\* given the visual summary alone
AudioSummaryDone_Lenient(r, out) ==
    /\ req[r].pc = "audioSum"
    /\ req' = [req EXCEPT ![r] =
                  [@ EXCEPT !.pc = "final",
                            !.audioSum = IF out = "ok"
                                         THEN <<"audio", r, req[r].transcript.by>>
                                         ELSE <<>>,
                            !.calls = Append(@, Call("generateFinalSummary",
                                                     <<req[r].visual,
                                                       IF out = "ok"
                                                       THEN <<"audio", r, req[r].transcript.by>>
                                                       ELSE <<>> >>))]]
    /\ UNCHANGED storeVars
    /\ UNCHANGED <<prev, runs>>
    /\ status' = NoStatus
    /\ UNCHANGED schedVars

\* generateAudioSummary returns or throws; on return the Consolidator is called
AudioSummaryDone(r, out) ==
    /\ req[r].pc = "audioSum"
    /\ IF out = "ok"
       THEN req' = [req EXCEPT ![r] =
                       [@ EXCEPT !.pc = "final",
                                 !.audioSum = <<"audio", r, req[r].transcript.by>>,
                                 !.calls = Append(@, Call("generateFinalSummary",
                                                          <<req[r].visual,
                                                            <<"audio", r, req[r].transcript.by>> >>))]]
       ELSE req' = [req EXCEPT ![r] = Thrown(@, "generateAudioSummary")]
    /\ UNCHANGED storeVars
    /\ UNCHANGED <<prev, runs>>
    /\ status' = NoStatus
    /\ UNCHANGED schedVars

\* generateFinalSummary returns or throws; on return POST answers 200
FinalDone(r, out) ==
    /\ req[r].pc = "final"
    /\ IF out = "ok"
       THEN req' = [req EXCEPT ![r] =
                       [@ EXCEPT !.pc = "done",
                                 !.final = <<"final", req[r].visual, req[r].audioSum>>,
                                 !.resp = DoneResp(req[r], <<"final", req[r].visual,
                                                             req[r].audioSum>>)]]
       ELSE req' = [req EXCEPT ![r] = Thrown(@, "generateFinalSummary")]
    /\ UNCHANGED storeVars
    /\ UNCHANGED <<prev, runs>>
    /\ status' = NoStatus
    /\ UNCHANGED schedVars

\* the stages a returned request completed (history): its extractor, its
\* transcription, its sampling pass returned; "frameItems" when the pass
\* stored at least one frame
StagesCompleted(l) ==
    LET ops == {l.calls[k].op : k \in 1..Len(l.calls)}
        sampled == "ffprobe" \in ops /\ l.failedAt \notin {"ffprobe", "ffmpegFrame"}
    IN {s \in {"audio"} : "extractAudio" \in ops /\ l.failedAt # "extractAudio"}
       \cup {s \in {"transcript"} :
                "transcribeAudio" \in ops /\ l.failedAt # "transcribeAudio"}
       \cup {s \in {"frames"} : sampled}
       \cup {s \in {"frameItems"} : "ffprobe" \in ops /\ l.frames # <<>>}

\* the response has been delivered; the slot is free for the next request
Return(r) ==
    /\ req[r].pc \in {"done", "fail"}
    /\ prev' = [req[r] EXCEPT !.stagesDone = prev.stagesDone \cup StagesCompleted(req[r])]
    /\ req' = [req EXCEPT ![r] = Idle]
    /\ UNCHANGED storeVars
    /\ UNCHANGED runs
    /\ status' = NoStatus
    /\ UNCHANGED schedVars

\* the JSON body of GET /api/summarize (code 400 when videoId is missing)
StatusResponse(inp, v, cached) ==
    IF inp = "empty"
    THEN [NoStatus EXCEPT !.code = 400]
    ELSE [videoId |-> "id", videoExists |-> v,
          hasAudio |-> cached.hasAudio,
          hasFrames |-> cached.hasFrames,
          hasTranscript |-> cached.hasTranscript,
          audioPath |-> IF cached.hasAudio THEN "/audio/id.mp3" ELSE "null",
          framesDir |-> IF cached.hasFrames THEN "/frames/id" ELSE "null",
          transcriptPath |-> IF cached.hasTranscript THEN "/transcripts/id.txt" ELSE "null",
          code |-> 200]

\* variant: Status prepares the artifact directories as Check/Run does
GET_EnsureDirs(inp) ==
    /\ status' = StatusResponse(inp, video,
                                checkCachedData(audio, transcript, framesDir, txt))
    /\ dirs' = AllDirs
    /\ UNCHANGED <<video, duration, config, audio, transcript, framesDir, txt, jpg>>
    /\ UNCHANGED <<req, prev, runs>>
    /\ UNCHANGED schedVars

\* GET /api/summarize
GET(inp) ==
    /\ status' = StatusResponse(inp, video,
                                checkCachedData(audio, transcript, framesDir, txt))
    /\ UNCHANGED storeVars
    /\ UNCHANGED <<req, prev, runs>>
    /\ UNCHANGED schedVars

Inputs == {"valid", "empty", "malformed"}
Outcomes == {"ok", "fail"}
FrameOutcomes == {"ok", "miss", "fail"}

\* one request at a time: a request is issued only when no other is in flight
NoneInFlight == \A q \in Procs : req[q].pc = "idle"

Step(r) ==
    \/ AudioWriting(r)
    \/ \E out \in Outcomes : ExtractAudioDone(r, out)
    \/ \E out \in Outcomes : TranscribeDone(r, out)
    \/ \E out \in Outcomes : ProbeDone(r, out)
    \/ \E out \in FrameOutcomes : FrameToolDone(r, out)
    \/ FrameEncode(r)
    \/ \E out \in Outcomes : VisualDone(r, out)
    \/ \E out \in Outcomes : AudioSummaryDone(r, out)
    \/ \E out \in Outcomes : FinalDone(r, out)
    \/ Return(r)

Next ==
    \/ \E inp \in Inputs : NoneInFlight /\ POST(1, inp)
    \/ \E r \in Procs : Step(r)
    \/ \E inp \in {"valid", "empty"} : GET(inp)

Spec == Init /\ [][Next]_vars

\* Overlapping requests for one video: the video is present and the key is
\* configured, any request slot accepts a POST while others are in flight
ConcDurations == {15 * Scale}

\* requests issued in one behaviour of the overlapping specification
MaxOverlap == 2

ConcInit ==
    /\ video = TRUE
    /\ duration \in ConcDurations
    /\ config = "key"
    /\ audio \in {NoAudio, [st |-> "complete", by |-> NumReqs + 1]}
    /\ transcript \in {NoTranscript,
                       [st |-> "written", from |-> "complete", by |-> NumReqs + 1]}
    /\ txt \in {NoTxt, [i \in Ordinals |-> IF i = 0 THEN NumReqs + 1 ELSE 0]}
    /\ framesDir = (TxtSet(txt) # {})
    /\ dirs = IF audio.st = "none" /\ transcript.st = "none" /\ ~framesDir
              THEN {} ELSE AllDirs
    /\ jpg = {}
    /\ req = [r \in Procs |-> Idle]
    /\ prev = Idle
    /\ runs = 0
    /\ status = NoStatus
    /\ sd = 0 /\ si = 0 /\ sts = <<>>

ConcNext ==
    \/ \E r \in 1..MaxOverlap : runs < MaxOverlap /\ POST(r, "valid")
    \/ \E r \in Procs : Step(r)

ConcSpec == ConcInit /\ [][ConcNext]_vars

\* what the runtime and the environment owe a request in flight: every tool
\* or service call it awaits eventually returns or fails, and the
\* continuation after an await is eventually run
Progress(r) ==
    \/ \E out \in Outcomes : ExtractAudioDone(r, out)
    \/ \E out \in Outcomes : TranscribeDone(r, out)
    \/ \E out \in Outcomes : ProbeDone(r, out)
    \/ \E out \in FrameOutcomes : FrameToolDone(r, out)
    \/ FrameEncode(r)
    \/ \E out \in Outcomes : VisualDone(r, out)
    \/ \E out \in Outcomes : AudioSummaryDone(r, out)
    \/ \E out \in Outcomes : FinalDone(r, out)

\* the states the termination check starts from: video present or not, key
\* configured or not, a loop of zero or of three frames, each artifact
\* cached or not
LiveDurations == {0, 25 * Scale}

LiveInit ==
    /\ video \in BOOLEAN
    /\ duration \in IF video THEN LiveDurations ELSE {0}
    /\ config \in {"nofile", "key"}
    /\ audio \in {NoAudio, [st |-> "complete", by |-> NumReqs + 1]}
    /\ transcript \in {NoTranscript,
                       [st |-> "written", from |-> "complete", by |-> NumReqs + 1]}
    /\ txt \in {NoTxt, [i \in Ordinals |-> IF i = 0 THEN NumReqs + 1 ELSE 0]}
    /\ framesDir = (TxtSet(txt) # {})
    /\ dirs = IF audio.st = "none" /\ transcript.st = "none" /\ ~framesDir
              THEN {} ELSE AllDirs
    /\ jpg = {}
    /\ req = [r \in Procs |-> Idle]
    /\ prev = Idle
    /\ runs = 0
    /\ status = NoStatus
    /\ sd = 0 /\ si = 0 /\ sts = <<>>

\* ------------------------------------------------------- the keys endpoint
\* what POST /api/keys is sent: a non-empty key, an empty key, a body without
\* the field, a body that does not parse
KeyBodies == {"key", "empty", "absent", "malformed"}

\* the keys.json that writeConfig leaves: JSON.stringify drops an undefined
\* openaiApiKey, and readConfig turns a missing or unparsable file into {}
ConfigAfterPost(c, body) ==
    IF body = "malformed" THEN c
    ELSE IF body = "key" THEN "key"
    ELSE IF body = "empty" THEN "empty"
    ELSE "nokey"

\* the answer of the keys endpoint, kept where the last answer of a
\* request outside the pipeline is kept
KeysResponse(code) == [NoStatus EXCEPT !.videoId = "keys", !.code = code]

\* variant: an empty key in the body leaves the stored key in place
KeysPOST_KeepOnEmpty(body) ==
    /\ config' = IF body = "empty" /\ config = "key" THEN config
                 ELSE ConfigAfterPost(config, body)
    /\ UNCHANGED <<video, duration, dirs, audio, transcript, framesDir, txt, jpg>>
    /\ UNCHANGED <<req, prev, runs>>
    /\ status' = KeysResponse(IF body = "malformed" THEN 500 ELSE 200)
    /\ UNCHANGED schedVars

\* POST /api/keys
KeysPOST(body) ==
    /\ config' = ConfigAfterPost(config, body)
    /\ UNCHANGED <<video, duration, dirs, audio, transcript, framesDir, txt, jpg>>
    /\ UNCHANGED <<req, prev, runs>>
    /\ status' = KeysResponse(IF body = "malformed" THEN 500 ELSE 200)
    /\ UNCHANGED schedVars

\* DELETE /api/keys
KeysDELETE ==
    /\ config' = "nokey"
    /\ UNCHANGED <<video, duration, dirs, audio, transcript, framesDir, txt, jpg>>
    /\ UNCHANGED <<req, prev, runs>>
    /\ status' = KeysResponse(200)
    /\ UNCHANGED schedVars

\* sequential Check/Run requests for a present video, with the keys endpoint
\* called at any time in between
KeysInit ==
    /\ video = TRUE
    /\ duration = 5 * Scale
    /\ config \in ConfigStates
    /\ audio \in {NoAudio, [st |-> "complete", by |-> NumReqs + 1]}
    /\ transcript = NoTranscript
    /\ txt = NoTxt
    /\ framesDir = FALSE
    /\ dirs = IF audio.st = "none" THEN {} ELSE AllDirs
    /\ jpg = {}
    /\ req = [r \in Procs |-> Idle]
    /\ prev = Idle
    /\ runs = 0
    /\ status = NoStatus
    /\ sd = 0 /\ si = 0 /\ sts = <<>>

KeysNext ==
    \/ NoneInFlight /\ POST(1, "valid")
    \/ \E r \in Procs : Step(r)
    \/ \E body \in KeyBodies : KeysPOST(body)
    \/ KeysDELETE

KeysSpec == KeysInit /\ [][KeysNext]_vars

\* A caller that re-issues the same request one at a time while the video and
\* the key stay in place; tools and services fail finitely often: no call
\* fails any more once the last request of the behaviour has been issued
RetryInit == LiveInit /\ video /\ config = "key"

RetryStep(r) ==
    Step(r) /\ (runs = MaxRuns => req'[r].pc # "fail")

RetryNext ==
    \/ NoneInFlight /\ POST(1, "valid")
    \/ \E r \in Procs : RetryStep(r)

RetrySpec == RetryInit /\ [][RetryNext]_vars /\ WF_vars(RetryNext)

\* sequential requests from the narrow initial states
SeqSpec == LiveInit /\ [][Next]_vars

FairSpec == LiveInit /\ [][Next]_vars /\ \A r \in Procs : WF_vars(Progress(r))

\* ------------------------------------------------- the schedule on its own
\* extractFrames' timestamp computation for every probed duration up to
\* MaxDur seconds, in steps of 1/Scale second; no request is running
SchedInit ==
    /\ video = FALSE /\ duration = 0 /\ config = "nofile" /\ dirs = {}
    /\ audio = NoAudio /\ transcript = NoTranscript
    /\ framesDir = FALSE /\ txt = NoTxt /\ jpg = {}
    /\ req = [r \in Procs |-> Idle] /\ prev = Idle /\ runs = 0 /\ status = NoStatus
    /\ sd \in 0..(MaxDur * Scale)
    /\ si = 0
    /\ sts = <<>>

\* one iteration of `for (let i = 0; i < frameCount; i++)`: the timestamp of
\* ordinal i is computed and handed to the tool
SchedStep ==
    /\ si < FrameCount(sd)
    /\ sts' = Append(sts, TimestampNum(sd, si))
    /\ si' = si + 1
    /\ UNCHANGED sd
    /\ UNCHANGED storeVars
    /\ UNCHANGED <<req, prev, runs, status>>

SchedNext == SchedStep

SchedSpec == SchedInit /\ [][SchedNext]_vars

\* ------------------------------------------------------------- properties
\* names of the tools and services a request has invoked so far
Ops(l) == {l.calls[k].op : k \in 1..Len(l.calls)}

Tools == {"extractAudio", "ffprobe", "ffmpegFrame"}
Services == {"transcribeAudio", "generateVisualSummary", "generateAudioSummary",
             "generateFinalSummary"}

\* the request in slot r has arrived with a well-formed id, found the source
\* video and a configured credential
Admitted(l) ==
    l.pc # "idle" /\ l.input = "valid" /\ l.pre.video /\ l.pre.config = "key"

AllCached == [audio |-> TRUE, frames |-> TRUE, transcript |-> TRUE]

\* the previous request started on a store with the video and nothing else,
\* every tool and service call it made succeeded, every scheduled frame was
\* produced and the probe reported a positive duration
C1_FirstRun ==
    /\ prev.pc = "done" /\ prev.input = "valid"
    /\ prev.pre.video /\ prev.pre.config = "key"
    /\ prev.pre.audio = "none" /\ prev.pre.transcript = "none" /\ prev.pre.txt = {}
    /\ prev.missed = {}
    /\ duration > 0

C2_NotFoundNoWork ==
    \A r \in Procs :
        (req[r].pc # "idle" /\ req[r].input = "valid" /\ ~req[r].pre.video) =>
            /\ req[r].pc = "fail"
            /\ req[r].resp.status = 404
            /\ req[r].calls = <<>>

C2_Witness ==
    /\ req[1].pc = "fail" /\ req[1].resp.status = 404
    /\ ~req[1].pre.video
    /\ req[1].pre.config = "key"
    /\ req[1].pre.audio = "complete"
    /\ req[1].pre.txt # {}

\* C3: with the source video present and no credential configured (file
\* missing, unparsable, key absent or empty), Check/Run ends in 400
\* Unconfigured and invokes neither extractor nor sampler nor any service.
C3_UnconfiguredNoWork ==
    \A r \in Procs :
        (req[r].pc # "idle" /\ req[r].input = "valid" /\ req[r].pre.video
            /\ req[r].pre.config # "key") =>
            /\ req[r].pc = "fail"
            /\ req[r].resp.status = 400
            /\ req[r].resp.error = "OpenAI API key not configured"
            /\ req[r].calls = <<>>

C3_Witness ==
    /\ req[1].pc = "fail" /\ req[1].resp.status = 400
    /\ req[1].input = "valid"
    /\ req[1].pre.video
    /\ req[1].pre.config = "empty"

\* C4 as stated: when audio extraction throws, that run attempts neither
\* transcription nor frame sampling, and the retry finds the audio cached and
\* does not extract again.
C4_RetrySkipsExtraction ==
    /\ \A r \in Procs :
          req[r].failedAt = "extractAudio" => Ops(req[r]) = {"extractAudio"}
    /\ \A r \in Procs :
          (prev.failedAt = "extractAudio" /\ Admitted(req[r])) =>
              /\ req[r].cached.hasAudio
              /\ "extractAudio" \notin Ops(req[r])

\* C4 (amended): when audio extraction throws, that run attempts neither
\* transcription nor frame sampling; the next request, with no other request
\* in flight, skips extraction exactly when the failed tool run had already
\* created the mp3 (it then transcribes that file if no transcript is
\* cached), and otherwise invokes the extractor again.
C4_RetryAfterExtractionFailure ==
    /\ \A r \in Procs :
          req[r].failedAt = "extractAudio" =>
              /\ req[r].pc = "fail"
              /\ Ops(req[r]) = {"extractAudio"}
    /\ \A r \in Procs :
          (prev.failedAt = "extractAudio" /\ Admitted(req[r])) =>
              /\ Ops(prev) = {"extractAudio"}
              /\ req[r].cached.hasAudio <=> prev.partial
              /\ "extractAudio" \in Ops(req[r]) <=> ~prev.partial
              /\ (prev.partial /\ ~req[r].cached.hasTranscript) =>
                    /\ req[r].calls[1].op = "transcribeAudio"
                    /\ req[r].sent = "partial"
              /\ ~prev.partial => req[r].calls[1].op = "extractAudio"

C4_Witness ==
    /\ prev.failedAt = "extractAudio"
    /\ prev.partial
    /\ req[1].pc = "transcribe"
    /\ req[1].cached.hasAudio
    /\ "extractAudio" \notin Ops(req[1])

\* C5: a sampling pass over n scheduled timestamps of which k silently
\* produce no file still ends in DONE (200) with frameCount = n - k; the
\* frames returned and the items stored are the ordinals that were not missed.
C5_LossySampling ==
    \A r \in Procs :
        (req[r].pc = "done" /\ "ffprobe" \in Ops(req[r])) =>
            LET kept == (0..(req[r].fc - 1)) \ req[r].missed
            IN /\ req[r].resp.status = 200
               /\ req[r].resp.frameCount = req[r].fc - Cardinality(req[r].missed)
               /\ {req[r].frames[k][1] : k \in 1..Len(req[r].frames)} = kept
               /\ TxtSet(txt) = kept

C5_Witness ==
    /\ req[1].pc = "done"
    /\ req[1].fc = 11
    /\ req[1].missed # {}
    /\ req[1].resp.frameCount = 11 - Cardinality(req[1].missed)
    /\ req[1].resp.status = 200

\* C6: every Vision Summarizer call receives exactly the first min(10, n)
\* frames of the run's n-frame sequence, in ordinal order, hence at most 10.
C6_VisionAtMostTen ==
    \A r \in Procs : \A k \in 1..Len(req[r].calls) :
        req[r].calls[k].op = "generateVisualSummary" =>
            LET a == req[r].calls[k].arg
                f == req[r].frames
            IN /\ Len(a) <= 10
               /\ Len(a) = IF Len(f) < 10 THEN Len(f) ELSE 10
               /\ \A j \in 1..Len(a) : a[j] = f[j]
               /\ \A j \in 1..(Len(a) - 1) : a[j][1] < a[j + 1][1]

C6_Witness ==
    /\ req[1].pc = "visual"
    /\ ~req[1].cached.hasFrames
    /\ Len(req[1].frames) = 11
    /\ Len(req[1].calls[Len(req[1].calls)].arg) = 10

\* min(20, ceil(D / 10)) for a duration of d/Scale seconds, from its
\* defining inequalities
C7_Count(d) ==
    CHOOSE n \in 0..20 :
        /\ n = 20 \/ 10 * Scale * n >= d
        /\ n = 0 \/ 10 * Scale * (n - 1) < d

C8_StatusNoWork ==
    [][status'.code # 0 => (UNCHANGED storeVars /\ req' = req)]_vars

C8_Witness ==
    /\ status.code = 200
    /\ dirs = {}
    /\ video
    /\ config = "key"

\* C9: a Status response reports videoExists iff the mp4 is present, each
\* has* flag iff that artifact is in the store, a non-null location iff the
\* kind is reported cached; a missing video gives videoExists:false, not an error.
C9_StatusReports ==
    /\ status.code \in {0, 200, 400}
    /\ (status.code # 0 /\ status.videoId # "") => status.code = 200
    /\ status.code = 200 =>
          /\ status.videoExists <=> video
          /\ status.hasAudio <=> audio.st # "none"
          /\ status.hasTranscript <=> transcript.st # "none"
          /\ status.hasFrames <=> TxtSet(txt) # {}
          /\ status.audioPath # "null" <=> status.hasAudio
          /\ status.transcriptPath # "null" <=> status.hasTranscript
          /\ status.framesDir # "null" <=> status.hasFrames

C9_Witness ==
    /\ status.code = 200
    /\ ~video
    /\ ~status.videoExists
    /\ status.hasAudio /\ status.audioPath = "/audio/id.mp3"
    /\ ~status.hasTranscript /\ status.transcriptPath = "null"

\* C10: when the transcription call fails the request ends in FAIL (500), no
\* transcript is written, the audio (extracted in that run or before) stays
\* in the store, and the next request reports cacheFlags.audio = true and does
\* not invoke the Audio Extractor.
C10_TranscriptionFailure ==
    /\ \A r \in Procs :
          req[r].failedAt = "transcribeAudio" =>
              /\ req[r].pc = "fail"
              /\ req[r].resp.status = 500
              /\ transcript.st = "none"
              /\ audio.st # "none"
              /\ "extractAudio" \in Ops(req[r]) => audio = [st |-> "complete", by |-> r]
    /\ \A r \in Procs :
          (prev.failedAt = "transcribeAudio" /\ Admitted(req[r])) =>
              /\ req[r].cached.hasAudio
              /\ "extractAudio" \notin Ops(req[r])
              /\ req[r].pc = "done" => req[r].resp.cached.audio

C10_Witness ==
    /\ prev.failedAt = "transcribeAudio"
    /\ "extractAudio" \in Ops(prev)
    /\ req[1].pc = "done"
    /\ req[1].resp.cached.audio
    /\ ~req[1].resp.cached.transcript


\* what a returned request l leaves in the store, from its history: the
\* artifact was there when it arrived, or l's own tool or service wrote it (an
\* mp3 that a failed ffmpeg run had opened counts as written)
AudioWritten(l) ==
    \/ l.pre.audio # "none"
    \/ l.partial
    \/ "extractAudio" \in Ops(l) /\ l.failedAt # "extractAudio"

TranscriptWritten(l) ==
    \/ l.pre.transcript # "none"
    \/ "transcribeAudio" \in Ops(l) /\ l.failedAt # "transcribeAudio"

FramesWritten(l) ==
    \/ l.pre.txt # {}
    \/ "ffprobe" \in Ops(l) /\ l.frames # <<>>

FailedUpstream(l) == l.pc = "fail" /\ l.failedAt \in Tools \cup Services

\* the call a request makes first when the store holds exactly these artifacts
FirstCall(a, t, f) ==
    IF ~a THEN "extractAudio"
    ELSE IF ~t THEN "transcribeAudio"
    ELSE IF ~f THEN "ffprobe"
    ELSE "generateVisualSummary"

C12_StagesCompleteOnce ==
    \A r \in Procs :
        Admitted(req[r]) =>
            /\ "audio" \in prev.stagesDone => "extractAudio" \notin Ops(req[r])
            /\ "transcript" \in prev.stagesDone => "transcribeAudio" \notin Ops(req[r])
            /\ "frames" \in prev.stagesDone => "ffprobe" \notin Ops(req[r])

\* C12 (amended): over non-overlapping requests, audio extraction and
\* transcription are invoked by no request after one in which they completed;
\* frame sampling is invoked by no request after a pass that stored at least
\* one frame, whereas a pass that returned without storing a frame leaves the
\* frame stage uncached for the next request.
C12_CompletedStagesSkipped ==
    \A r \in Procs :
        Admitted(req[r]) =>
            /\ "audio" \in prev.stagesDone => "extractAudio" \notin Ops(req[r])
            /\ "transcript" \in prev.stagesDone => "transcribeAudio" \notin Ops(req[r])
            /\ "frameItems" \in prev.stagesDone =>
                  /\ req[r].cached.hasFrames
                  /\ "ffprobe" \notin Ops(req[r])
            /\ ("frames" \in StagesCompleted(prev) /\ prev.frames = <<>>) =>
                  ~req[r].cached.hasFrames

C12_Witness ==
    /\ prev.stagesDone = {"audio", "transcript", "frames", "frameItems"}
    /\ prev.failedAt = "generateVisualSummary"
    /\ req[1].pc = "done"
    /\ Ops(req[1]) \cap (Tools \cup {"transcribeAudio"}) = {}


\* C13: a stage failure aborts the request at once: the call that failed is
\* the last call of the run, the request is in FAIL with status 500 and that
\* failure's message, and from then on the run makes no call and writes no
\* artifact (it only returns).
C13_FailureAborts ==
    /\ [](\A r \in Procs :
            req[r].failedAt \in Tools \cup Services =>
                /\ req[r].pc = "fail"
                /\ req[r].resp.status = 500
                /\ req[r].resp.error = req[r].failedAt
                /\ req[r].calls[Len(req[r].calls)].op = req[r].failedAt)
    /\ [][\A r \in Procs :
            req[r].pc = "fail" =>
                /\ req'[r] = req[r] \/ req'[r] = Idle
                /\ UNCHANGED <<dirs, audio, transcript, framesDir, txt, jpg>>]_vars

C13_Witness ==
    /\ req[1].pc = "fail"
    /\ req[1].failedAt = "ffmpegFrame"
    /\ Len(req[1].frames) >= 1
    /\ req[1].resp.error = "ffmpegFrame"
    /\ req[1].resp.status = 500


\* how many calls of the request l went to op
Invocations(l, op) == Cardinality({k \in 1..Len(l.calls) : l.calls[k].op = op})

\* C14: nothing is retried within a request: extractor, transcriber, duration
\* probe and the three completion calls are each invoked at most once, and the
\* frame tool at most once per scheduled ordinal.
C14_NoAutomaticRetry ==
    \A r \in Procs :
        /\ \A op \in (Tools \cup Services) \ {"ffmpegFrame"} : Invocations(req[r], op) <= 1
        /\ \A j, k \in 1..Len(req[r].calls) :
              (j < k /\ req[r].calls[j].op = "ffmpegFrame"
                     /\ req[r].calls[k].op = "ffmpegFrame") =>
                  req[r].calls[j].arg[1] < req[r].calls[k].arg[1]
        /\ Invocations(req[r], "ffmpegFrame") <= req[r].fc

C14_Witness ==
    /\ req[1].pc = "done"
    /\ Ops(req[1]) = Tools \cup Services
    /\ req[1].fc = 11
    /\ Len(req[1].calls) = 17


\* C15: provided every awaited tool or service call eventually returns or
\* fails, every Check/Run request eventually reaches a terminal state, DONE or
\* FAIL; it holds a response exactly when it is terminal (200 iff DONE), and
\* the response, once produced, is not produced again or changed.
C15_OneTerminalState ==
    /\ \A r \in Procs : (req[r].pc # "idle") ~> (req[r].pc \in {"done", "fail"})
    /\ [](\A r \in Procs :
            /\ req[r].resp # NoResp <=> req[r].pc \in {"done", "fail"}
            /\ req[r].resp.status = 200 <=> req[r].pc = "done")
    /\ [][\A r \in Procs :
            req[r].pc \in {"done", "fail"} =>
                req'[r] = req[r] \/ req'[r] = Idle]_vars

C15_Witness ==
    /\ req[1].pc = "done"
    /\ req[1].resp.status = 200
    /\ prev.pc = "fail"
    /\ prev.resp.status = 500
    /\ runs = 2


Summarizers == <<"generateVisualSummary", "generateAudioSummary", "generateFinalSummary">>

\* the operations of the last n calls of a request, in order
LastOps(l, n) ==
    [k \in 1..n |-> l.calls[Len(l.calls) - n + k].op]

Summarizing == {"visual", "audioSum", "final"}

\* C16: a request that answers 200 has called the vision summarizer, the audio
\* summarizer and the consolidator, in that order, as its last three calls, and
\* its response carries the summaries those calls returned; a request that
\* passes the preconditions with audio, transcript and frames all cached calls
\* the vision summarizer first; and no step of a summarizer call changes the
\* artifact store.
C16_LiveSummarization ==
    /\ [](\A r \in Procs :
            /\ req[r].pc = "done" =>
                 /\ Len(req[r].calls) >= 3
                 /\ LastOps(req[r], 3) = Summarizers
                 /\ req[r].resp.summary = <<"final", req[r].visual, req[r].audioSum>>
                 /\ req[r].resp.visualSummary = req[r].visual
                 /\ req[r].visual[1] = "visual"
                 /\ req[r].audioSum[1] = "audio"
            /\ (Admitted(req[r]) /\ req[r].cached.hasAudio /\ req[r].cached.hasTranscript
                    /\ req[r].cached.hasFrames) =>
                 req[r].calls[1].op = "generateVisualSummary")
    /\ [][\A r \in Procs :
            (req[r].pc \in Summarizing /\ req'[r] # req[r]) => UNCHANGED storeVars]_vars

C16_Witness ==
    /\ req[1].pc = "done"
    /\ req[1].cached.hasAudio /\ req[1].cached.hasTranscript /\ req[1].cached.hasFrames
    /\ Len(req[1].calls) = 3
    /\ prev.pc = "done"


\* the remediation class of a failed request, from its cause: what the caller
\* sent and what the store held when the request arrived
FailureClass(l) ==
    IF l.pc # "fail" \/ l.input = "malformed" THEN "none"
    ELSE IF l.input = "empty" THEN "invalidInput"
    ELSE IF ~l.pre.video THEN "notFound"
    ELSE IF getOpenAIApiKey(l.pre.config) = "null" THEN "unconfigured"
    ELSE "upstream"

ExpectedStatus(c) ==
    CASE c = "invalidInput" -> 400
      [] c = "unconfigured" -> 400
      [] c = "notFound" -> 404
      [] c = "upstream" -> 500

\* C17 as stated: two failed requests of different remediation classes never
\* carry the same HTTP status.
C17_DistinctStatus ==
    \A r \in Procs :
        (FailureClass(prev) # "none" /\ FailureClass(req[r]) # "none"
            /\ FailureClass(prev) # FailureClass(req[r])) =>
            prev.resp.status # req[r].resp.status

\* C17: two failed requests of different remediation classes never carry the
\* same pair of HTTP status and error message. The status alone is 404 for
\* video-not-found and 500 for an upstream failure, and 400 for both a
\* missing identifier and a missing credential, which differ in the message.
C17_DistinctStatusAndMessage ==
    \A r \in Procs :
        /\ FailureClass(req[r]) # "none" =>
              req[r].resp.status = ExpectedStatus(FailureClass(req[r]))
        /\ (FailureClass(prev) # "none" /\ FailureClass(req[r]) # "none"
               /\ FailureClass(prev) # FailureClass(req[r])) =>
              <<prev.resp.status, prev.resp.error>> # <<req[r].resp.status, req[r].resp.error>>

C17_Witness ==
    /\ FailureClass(prev) = "invalidInput"
    /\ FailureClass(req[1]) = "unconfigured"
    /\ prev.resp.status = req[1].resp.status
    /\ prev.resp.error # req[1].resp.error


\* C18: a Check/Run request whose identifier is missing or whose body cannot
\* be parsed is answered 400 'videoId is required' and has called no tool and
\* no service; a Status request without identifier is answered 400 and
\* reports nothing about the store.
C18_InvalidInputRejected ==
    /\ \A r \in Procs :
          (req[r].pc # "idle" /\ req[r].input \in {"empty", "malformed"}) =>
              /\ req[r].pc = "fail"
              /\ req[r].resp.status = 400
              /\ req[r].resp.error = "videoId is required"
              /\ req[r].calls = <<>>
    /\ status.code = 400 => status = [NoStatus EXCEPT !.code = 400]


\* C19 as stated: a complete audio file, a transcript and a frame item, once in
\* the store, are never written again, whatever the interleaving of requests.
C19_Immutable ==
    [][/\ audio.st = "complete" => audio' = audio
       /\ transcript.st = "written" => transcript' = transcript
       /\ \A i \in Ordinals : txt[i] # 0 => txt'[i] = txt[i]]_vars

\* C19: a request writes an audio file, a transcript or a frame item only if
\* that artifact kind was absent from the store when the request arrived; of
\* overlapping requests that all found it absent each one writes it, and the
\* store keeps the last write.
C19_WritesOnlyWhatWasAbsent ==
    [][\A r \in Procs :
          /\ (audio' # audio /\ audio'.by = r) => req[r].pre.audio = "none"
          /\ (transcript' # transcript /\ transcript'.by = r) =>
                req[r].pre.transcript = "none"
          /\ \A i \in Ordinals :
                (txt'[i] # txt[i] /\ txt'[i] = r) => req[r].pre.txt = {}]_vars

C19_Witness ==
    /\ req[1].transcript = [st |-> "written", from |-> "complete", by |-> 1]
    /\ transcript.by = 2
    /\ req[1].pre.transcript = "none"
    /\ req[2].pre.transcript = "none"


StoreFlags == checkCachedData(audio, transcript, framesDir, txt)

\* C20: no step of a Check/Run or Status request turns a cache flag of the
\* store from true to false, and a Status response reports true every flag
\* that was true before it was asked.
C20_NeverInvalidated ==
    [][/\ StoreFlags.hasAudio => StoreFlags'.hasAudio
       /\ StoreFlags.hasTranscript => StoreFlags'.hasTranscript
       /\ StoreFlags.hasFrames => StoreFlags'.hasFrames
       /\ status'.code = 200 =>
            /\ StoreFlags.hasAudio => status'.hasAudio
            /\ StoreFlags.hasTranscript => status'.hasTranscript
            /\ StoreFlags.hasFrames => status'.hasFrames]_vars

C20_Witness ==
    /\ status.code = 200
    /\ status.hasAudio /\ status.hasTranscript /\ status.hasFrames
    /\ audio.by = 1 /\ transcript.by = 1 /\ txt[0] = 1
    /\ runs = 2
    /\ prev.pc = "fail"
    /\ prev.pre.audio = "complete" /\ prev.pre.transcript = "written" /\ prev.pre.txt # {}


\* C21: no request ends in FAIL because of the frame-sampling stage: neither
\* the duration probe nor a per-timestamp extraction is where a failed request
\* failed.
C21_SamplingNeverFails ==
    \A r \in Procs :
        req[r].pc = "fail" => req[r].failedAt \notin {"ffprobe", "ffmpegFrame"}


\* C22: a request that has invoked the transcription service did so after its
\* own audio stage: either it found the audio cached and called no extraction,
\* or its first call was the extraction, which did not fail, and the
\* transcription is its second call; the audio file it handed over existed, and
\* the step that invokes the transcription ends with the audio file in the
\* store.
C22_AudioPrecedesTranscript ==
    /\ [](\A r \in Procs :
            "transcribeAudio" \in Ops(req[r]) =>
                /\ req[r].sent \in {"complete", "partial"}
                /\ req[r].failedAt # "extractAudio"
                /\ \/ req[r].cached.hasAudio /\ "extractAudio" \notin Ops(req[r])
                                            /\ req[r].calls[1].op = "transcribeAudio"
                   \/ ~req[r].cached.hasAudio /\ req[r].calls[1].op = "extractAudio"
                                             /\ req[r].calls[2].op = "transcribeAudio")
    /\ [][\A r \in Procs :
            (req[r].pc # "transcribe" /\ req'[r].pc = "transcribe") =>
                audio'.st # "none"]_vars

C22_Witness ==
    /\ req[1].pc = "transcribe"
    /\ ~req[1].cached.hasAudio
    /\ req[1].pre.audio = "none"
    /\ audio = [st |-> "complete", by |-> 1]
    /\ req[1].sent = "complete"


\* C23: a request that has invoked the consolidator had both the vision and
\* the audio summarizer return before, as the two calls right before it, and
\* handed it exactly the two summaries they returned; a DONE result carries
\* the three summaries the request's own three calls returned.
C23_ConsolidatorAfterBoth ==
    \A r \in Procs :
        LET l == req[r]
            n == Len(l.calls)
        IN /\ "generateFinalSummary" \in Ops(l) =>
                /\ n >= 3
                /\ LastOps(l, 3) = Summarizers
                /\ Invocations(l, "generateFinalSummary") = 1
                /\ l.visual # <<>> /\ l.visual[1] = "visual"
                /\ l.audioSum # <<>> /\ l.audioSum[1] = "audio"
                /\ l.calls[n].arg = <<l.visual, l.audioSum>>
                /\ l.failedAt \notin {"generateVisualSummary", "generateAudioSummary"}
           /\ l.pc = "done" =>
                /\ l.final = <<"final", l.calls[n].arg[1], l.calls[n].arg[2]>>
                /\ l.resp.summary = l.final
                /\ l.resp.visualSummary = l.visual
                /\ l.resp.audioSummary = l.audioSum

C23_Witness ==
    /\ req[1].pc = "done"
    /\ prev.pc = "done"
    /\ runs = 2
    /\ req[1].resp.summary = <<"final", req[1].visual, req[1].audioSum>>
    /\ req[1].calls[Len(req[1].calls)].arg = <<req[1].visual, req[1].audioSum>>


\* C24: the guards run in the order identifier, video, credential: a request
\* without identifier is answered 400 'videoId is required' whatever the store
\* holds; a request with identifier whose video is absent is answered 404
\* whatever the config file holds, and the config file has not been read; only
\* a request whose video is present is answered 400 for a missing key.
C24_PreconditionOrder ==
    \A r \in Procs :
        LET l == req[r]
        IN /\ (l.pc # "idle" /\ l.input = "empty") =>
                /\ l.resp.status = 400 /\ l.resp.error = "videoId is required"
                /\ l.reads = <<"videoId">>
           /\ (l.pc # "idle" /\ l.input = "valid" /\ ~l.pre.video) =>
                /\ l.resp.status = 404
                /\ l.resp.error = "Video not found"
                /\ "config" \notin {l.reads[k] : k \in 1..Len(l.reads)}
                /\ l.reads = <<"videoId", "video">>
           /\ (l.pc # "idle" /\ l.resp.error = "OpenAI API key not configured") =>
                /\ l.input = "valid" /\ l.pre.video
                /\ l.reads = <<"videoId", "video", "config">>

C24_Witness ==
    /\ req[1].pc = "fail"
    /\ req[1].input = "valid"
    /\ ~req[1].pre.video
    /\ getOpenAIApiKey(req[1].pre.config) = "null"
    /\ req[1].resp.status = 404


FrameOrdinals(fs) == [k \in 1..Len(fs) |-> fs[k][1]]

Sampler == {"ffprobe", "ffmpegFrame"}

\* C25: the frames a sampling pass stored before the tool failed stay in the
\* store; a request that passes the preconditions while at least one frame
\* item is stored takes the frame stage as cached, never calls the sampler,
\* works on exactly the stored items in file-name order, and a DONE result
\* reports frames cached and counts the stored items.
C25_WeakFrameCache ==
    \A r \in Procs :
        LET l == req[r]
        IN /\ (prev.failedAt = "ffmpegFrame" /\ prev.frames # <<>>) =>
                {prev.frames[k][1] : k \in 1..Len(prev.frames)} \subseteq TxtSet(txt)
           /\ (Admitted(l) /\ l.pre.txt # {}) =>
                /\ l.cached.hasFrames
                /\ Ops(l) \cap Sampler = {}
                /\ l.pc \in Summarizing \cup {"done"} =>
                      /\ FrameOrdinals(l.frames) = SortByName(l.pre.txt)
                      /\ l.frames = loadCachedFrames(txt)
                /\ l.pc = "done" =>
                      /\ l.resp.cached.frames
                      /\ l.resp.frameCount = Cardinality(l.pre.txt)

C25_Witness ==
    /\ prev.failedAt = "ffmpegFrame"
    /\ prev.fc = 3
    /\ Len(prev.frames) = 2
    /\ req[1].pc = "done"
    /\ req[1].resp.cached.frames
    /\ req[1].resp.frameCount = 2
    /\ "ffprobe" \notin Ops(req[1])


Stages == {"extractAudio", "transcribeAudio", "ffprobe", "ffmpegFrame"}

\* C26: requests are not coordinated. The cache flags of a request are those
\* of the store as it was when the request arrived, whatever other requests
\* are doing; and every write replaces what the store holds: when a request's
\* extraction, transcription or frame encoding completes, the store holds that
\* request's audio (or the unfinished file of another request whose extraction
\* has reopened the path), transcript or frame item.
C26_Uncoordinated ==
    /\ [](\A r \in Procs :
            Admitted(req[r]) =>
                /\ req[r].cached.hasAudio = (req[r].pre.audio # "none")
                /\ req[r].cached.hasTranscript = (req[r].pre.transcript # "none")
                /\ req[r].cached.hasFrames = (req[r].pre.txt # {}))
    /\ [][\A r \in Procs :
            /\ (req[r].pc = "audio" /\ req'[r].pc \notin {"audio", "fail"}) =>
                  audio' \in AudioAfter(r)
            /\ (req[r].pc = "transcribe" /\ req'[r].pc \notin {"transcribe", "fail"}) =>
                  transcript' = [st |-> "written", from |-> req[r].sent, by |-> r]
            /\ (req[r].pc = "encode" /\ req'[r].pc # "encode" /\ req[r].idx \in jpg) =>
                  txt'[req[r].idx] = r]_vars

\* two overlapping requests both found nothing cached, both ran every stage,
\* both wrote the transcript and frame 0, and the store holds the later writes
C26_Witness ==
    /\ \A r \in {1, 2} :
          /\ req[r].pre.audio = "none" /\ req[r].pre.transcript = "none"
          /\ req[r].pre.txt = {}
          /\ Stages \subseteq Ops(req[r])
          /\ req[r].transcript.by = r
          /\ req[r].frames # <<>> /\ req[r].frames[1] = <<0, r>>
    /\ transcript.by = 2
    /\ txt[0] = 1
    /\ audio.st = "complete"


\* the operation a step of request r invokes, "none" if it invokes nothing
Invoked(r) ==
    IF Len(req'[r].calls) > Len(req[r].calls)
    THEN req'[r].calls[Len(req'[r].calls)].op
    ELSE "none"

\* C27: a request invokes the extraction only while no audio file is in the
\* store, the transcription only while no transcript is in the store, and the
\* sampler's probe only while no frame item is in the store, at the moment the
\* stage begins.
C27_CheckBeforeEachStage ==
    [][\A r \in Procs :
          /\ Invoked(r) = "extractAudio" => audio.st = "none"
          /\ Invoked(r) = "transcribeAudio" => transcript.st = "none"
          /\ Invoked(r) = "ffprobe" => TxtSet(txt) = {}]_vars


\* C28: each stage is decided by its own flag of the observation the request
\* took on arrival: the extraction is invoked iff audio was observed missing;
\* the transcription and the sampler are invoked only if their artifact was
\* observed missing, and in a request that reached summarization iff so; a
\* DONE result reports for each stage the flag observed, which is true iff the
\* stage's compute was not invoked.
C28_StagesIndependent ==
    \A r \in Procs :
        LET l == req[r]
            reached == l.pc \in Summarizing \cup {"done"} \/ l.failedAt \in Services \ {"transcribeAudio"}
        IN Admitted(l) =>
            /\ "extractAudio" \in Ops(l) <=> ~l.cached.hasAudio
            /\ "transcribeAudio" \in Ops(l) => ~l.cached.hasTranscript
            /\ "ffprobe" \in Ops(l) => ~l.cached.hasFrames
            /\ reached =>
                 /\ "transcribeAudio" \in Ops(l) <=> ~l.cached.hasTranscript
                 /\ "ffprobe" \in Ops(l) <=> ~l.cached.hasFrames
            /\ l.pc = "done" =>
                 /\ l.resp.cached.audio = l.cached.hasAudio
                 /\ l.resp.cached.transcript = l.cached.hasTranscript
                 /\ l.resp.cached.frames = l.cached.hasFrames
                 /\ l.resp.cached.audio <=> "extractAudio" \notin Ops(l)
                 /\ l.resp.cached.transcript <=> "transcribeAudio" \notin Ops(l)
                 /\ l.resp.cached.frames <=> "ffprobe" \notin Ops(l)

C28_Witness ==
    /\ req[1].pc = "done"
    /\ ~req[1].resp.cached.audio
    /\ req[1].resp.cached.transcript
    /\ ~req[1].resp.cached.frames
    /\ Ops(req[1]) \cap Stages = {"extractAudio", "ffprobe", "ffmpegFrame"}


\* C29: for every duration for which at least two frames are scheduled, the
\* timestamps handed to the tool are strictly increasing in the ordinal, the
\* clamp to D - 1 included; no two ordinals share a timestamp.
C29_StrictlyIncreasing ==
    FrameCount(sd) >= 2 =>
        /\ \A i, j \in 1..Len(sts) : i < j => sts[i] < sts[j]
        /\ \A i, j \in 1..FrameCount(sd) :
              i < j => Schedule(sd)[i] < Schedule(sd)[j]

C29_Witness ==
    /\ sd = 10 * Scale + 1
    /\ FrameCount(sd) = 2
    /\ si = 2
    /\ sts[1] < sts[2]
    /\ sts[2] <= ClampNum(sd)


\* the frames handed to the vision summarizer by the request's call
VisionInput(l) ==
    LET k == CHOOSE k \in 1..Len(l.calls) : l.calls[k].op = "generateVisualSummary"
    IN l.calls[k].arg

\* C30: the frameCount of a DONE result is the number of frames that were
\* handed to the vision summarizer in that request, for every size of the
\* sampled or cached frame set.
C30_FrameCountIsFramesUsed ==
    \A r \in Procs :
        req[r].pc = "done" =>
            /\ req[r].resp.frameCount = Len(VisionInput(req[r]))
            /\ req[r].resp.frameCount = req[r].visual[3]


\* a timestamp numerator lies inside the video: 0 <= t <= D, over TsDen(d)
InsideVideo(ts, d) == 0 <= ts /\ ts <= d * 2 * FrameCount(d)

C32_AllCachedAfterDone ==
    \A r \in Procs :
        (req[r].pc = "done" /\ status.code = 200) =>
            status.hasAudio /\ status.hasTranscript /\ status.hasFrames

\* C32: while a Check/Run request is DONE the store holds the audio and the
\* transcript, and holds frames iff the request worked on at least one frame;
\* a Status response says the same: after a sampling pass that produced zero
\* frames it reports hasFrames false.
C32_CachedAfterDone ==
    \A r \in Procs :
        req[r].pc = "done" =>
            /\ StoreFlags.hasAudio /\ StoreFlags.hasTranscript
            /\ StoreFlags.hasFrames <=> req[r].resp.frameCount >= 1
            /\ status.code = 200 =>
                 /\ status.hasAudio /\ status.hasTranscript
                 /\ status.hasFrames <=> req[r].resp.frameCount >= 1

C32_Witness ==
    /\ req[1].pc = "done"
    /\ "ffprobe" \in Ops(req[1])
    /\ req[1].resp.frameCount = 0
    /\ status.code = 200
    /\ status.hasAudio /\ status.hasTranscript /\ ~status.hasFrames


\* C33: the file names of ordinals 0..19 sort in ordinal order (each name is
\* below the next one, and the order of names is transitive); and a request
\* that loads the cached frame set after a request that worked on a non-empty
\* frame sequence (sampled into an empty frame set, or loaded) works on the
\* same frames in the same order.
C33_FrameRoundTrip ==
    /\ \A i \in 0..(MAX_FRAMES - 2) : LexLess(FrameName(i), FrameName(i + 1))
    /\ \A r \in Procs :
          (/\ "generateVisualSummary" \in Ops(prev)
           /\ prev.frames # <<>>
           /\ "generateVisualSummary" \in Ops(req[r])) =>
              /\ req[r].cached.hasFrames
              /\ req[r].frames = prev.frames

C33_Witness ==
    /\ prev.pre.txt = {}
    /\ "ffprobe" \in Ops(prev)
    /\ prev.missed # {}
    /\ Len(prev.frames) = 10
    /\ prev.frames[10][1] = 10
    /\ req[1].pc = "done"
    /\ req[1].frames = prev.frames


SeqRange(s) == {s[k] : k \in 1..Len(s)}

\* C34 as stated: all DONE results for the video report the same frameCount.
C34_SameFrameCount ==
    \A r, q \in Procs :
        /\ (req[r].pc = "done" /\ req[q].pc = "done") =>
              req[r].resp.frameCount = req[q].resp.frameCount
        /\ (req[r].pc = "done" /\ prev.pc = "done") =>
              req[r].resp.frameCount = prev.resp.frameCount

\* C34: a request that found frames cached loads, when it reaches the frame
\* stage, exactly the items the store holds at that moment: at least those
\* stored when it arrived, and, when another request is in the middle of its
\* sampling pass, possibly a strict subset of what that pass goes on to store.
C34_LoadsWhatIsStored ==
    /\ [](\A r \in Procs :
            (req[r].cached.hasFrames /\ "generateVisualSummary" \in Ops(req[r])) =>
                /\ req[r].pre.txt # {}
                /\ req[r].pre.txt \subseteq SeqRange(FrameOrdinals(req[r].frames))
                /\ SeqRange(FrameOrdinals(req[r].frames)) \subseteq TxtSet(txt)
                /\ Ops(req[r]) \cap Sampler = {})
    /\ [][\A r \in Procs :
            (req'[r].cached.hasFrames /\ Invoked(r) = "generateVisualSummary") =>
                /\ FrameOrdinals(req'[r].frames) = SortByName(TxtSet(txt))
                /\ \A k \in 1..Len(req'[r].frames) :
                      req'[r].frames[k][2] = txt[req'[r].frames[k][1]]]_vars

\* request 2 arrived between the two frames of request 1's pass
C34_Witness ==
    /\ req[1].pc = "done" /\ req[2].pc = "done"
    /\ req[1].pre.txt = {} /\ req[1].missed = {}
    /\ req[1].resp.frameCount = 2
    /\ req[2].pre.txt = {0}
    /\ req[2].cached.hasFrames
    /\ req[2].resp.frameCount = 1
    /\ TxtSet(txt) = {0, 1}


PreconditionFailure(l) ==
    /\ l.pc = "fail"
    /\ \/ l.input = "empty"
       \/ l.input = "valid" /\ (~l.pre.video \/ getOpenAIApiKey(l.pre.config) = "null")

\* C36: the step in which a Check/Run request fails a precondition (missing
\* identifier, missing video, missing credential) changes nothing in the
\* store: no directory is created, no audio, transcript or frame item is
\* written; and such a request has called no tool and no service.
C36_PreconditionFailureNoEffect ==
    /\ [](\A r \in Procs : PreconditionFailure(req[r]) => req[r].calls = <<>>)
    /\ [][\A r \in Procs :
            (req[r].pc = "idle" /\ PreconditionFailure(req'[r])) =>
                UNCHANGED storeVars]_vars

C36_Witness ==
    /\ PreconditionFailure(req[1])
    /\ req[1].input = "valid" /\ req[1].pre.video
    /\ req[1].resp.status = 400
    /\ dirs = {}
    /\ ~framesDir


\* C37 as stated, its second half: once a request was DONE, every further
\* request reports audio, frames and transcript all cached.
C37_AllCachedAfterDone ==
    \A r \in Procs :
        (prev.pc = "done" /\ req[r].pc # "idle") =>
            req[r].cached.hasAudio /\ req[r].cached.hasTranscript /\ req[r].cached.hasFrames

\* C37: a caller that keeps re-issuing the request, with video and key in
\* place and tools and services failing finitely often, eventually gets a DONE
\* result; a request issued after a DONE result finds audio and transcript
\* cached, and finds frames cached iff that result worked on at least one
\* frame.
C37_EventuallyDone ==
    /\ <>(\E r \in Procs : req[r].pc = "done")
    /\ [](\A r \in Procs :
            (prev.pc = "done" /\ req[r].pc # "idle") =>
                /\ req[r].cached.hasAudio /\ req[r].cached.hasTranscript
                /\ req[r].cached.hasFrames <=> prev.resp.frameCount >= 1)

C37_Witness ==
    /\ prev.pc = "done"
    /\ prev.resp.frameCount = 0
    /\ req[1].pc = "done"
    /\ req[1].cached.hasAudio /\ req[1].cached.hasTranscript
    /\ ~req[1].cached.hasFrames


\* C38: the transcript in the store changes only in the step in which a
\* request's transcription call returns successfully, and then becomes the
\* transcript of the audio that request sent; a request whose call is pending
\* or has failed has written nothing; so a transcript that is in the store,
\* and reported by Status, was made from an audio file by a call that returned.
C38_TranscriptOnlyOnSuccess ==
    /\ [](/\ transcript.st \in {"none", "written"}
          /\ transcript.st = "written" => transcript.from \in {"complete", "partial"}
          /\ (status.code = 200 /\ status.hasTranscript) => transcript.st = "written"
          /\ \A r \in Procs :
                (req[r].pc = "transcribe" \/ req[r].failedAt = "transcribeAudio") =>
                    /\ transcript.by # r
                    /\ req[r].transcript = NoTranscript)
    /\ [][transcript' # transcript =>
            \E r \in Procs :
                /\ req[r].pc = "transcribe"
                /\ req'[r].pc \notin {"transcribe", "fail"}
                /\ req[r].sent # "none"
                /\ transcript' = [st |-> "written", from |-> req[r].sent, by |-> r]]_vars

C38_Witness ==
    /\ prev.failedAt = "transcribeAudio"
    /\ prev.pre.transcript = "none"
    /\ req[1].pc = "transcribe"
    /\ transcript = NoTranscript
    /\ status.code = 200 /\ ~status.hasTranscript /\ status.hasAudio


Artifacts == <<video, dirs, audio, transcript, framesDir, txt, jpg>>

Unconfigured(l) ==
    /\ l.pc = "fail"
    /\ l.resp.status = 400
    /\ l.resp.error = "OpenAI API key not configured"
    /\ l.calls = <<>>

\* C39: after the keys endpoint stored a non-empty key the credential guard
\* lets a request for a present video through; after it deleted the key or
\* stored an empty one the guard rejects the request as unconfigured; neither
\* operation touches a stored artifact; and a request is judged by the config
\* file as the last keys operation before its arrival left it.
C39_KeysDriveCredentialGuard ==
    /\ [][/\ KeysPOST("key") => Precheck("valid", video', config') = "pass"
          /\ (KeysPOST("empty") \/ KeysPOST("absent") \/ KeysDELETE) =>
                Precheck("valid", video', config') = "noKey"
          /\ (KeysDELETE \/ \E body \in KeyBodies : KeysPOST(body)) =>
                UNCHANGED Artifacts
          /\ \A r \in Procs :
                (req[r].pc = "idle" /\ req'[r].pc # "idle") =>
                    req'[r].pre.config = config]_vars
    /\ [](\A r \in Procs :
            req[r].pc # "idle" =>
                /\ req[r].pre.config = "key" => ~Unconfigured(req[r])
                /\ req[r].pre.config \in {"empty", "nokey"} => Unconfigured(req[r]))

\* a request passed with the key stored; the key was then deleted or blanked
\* and the next request is rejected, the first one's audio still in the store
C39_Witness ==
    /\ prev.pre.config = "key"
    /\ prev.pc = "done"
    /\ req[1].pre.config \in {"empty", "nokey"}
    /\ Unconfigured(req[1])
    /\ audio.st = "complete" /\ transcript.st = "written" /\ TxtSet(txt) # {}

====
